---- MODULE Spec2Model ----
(***************************************************************************)
(* A model of the 3D Print Log uploader plugin for Cura:                   *)
(*   PrintLogUploader.py                   (the extension itself)          *)
(*   PrintLogSettingsVisibilityHandler.py  (the logged-settings handler)   *)
(*                                                                         *)
(* Text is modelled as a sequence of tokens (each token a piece of the     *)
(* Python string), so concatenation is \o and two texts are compared       *)
(* token by token.  The ';'-separated preference string is modelled by the *)
(* sequence of its segments: the sequence str.split(";") returns, which is *)
(* never empty ("" splits into [""]).                                      *)
(***************************************************************************)
EXTENDS Integers, Sequences, FiniteSets, TLC

VARIABLES
    \* ---- print information and the setting being formatted
    materialLengths,   \* print_information.materialLengths, one entry per extruder
    settingName,       \* the setting_name last given to _buildSettingRow
    settingUnit,       \* setting -> its "unit" property
    extruderValue,     \* setting -> position -> its "value" in that extruder's stack
    row,               \* the text _buildSettingRow returned
    \* ---- the notes
    modelRows,         \* the keys PrintLogSettingDefinitionsModel lists, in row order
    notes,             \* the settings part of the text _generateNotes returned
    notesHead,         \* the part of that text before the "Settings:" header
    sceneModels,       \* the sliceable nodes of the scene that have a bounding box
    includeProfileName,    \* preference 3d_print_log/include_profile_name
    includeFilamentName,   \* preference 3d_print_log/include_filament_name
    includeObjectDetails,  \* preference 3d_print_log/include_object_details
    \* ---- preferences and the visibility handler
    loggedPref,        \* preference 3d_print_log/logged_settings (its segments)
    visible,           \* SettingVisibilityHandler._visible
    lastCall,          \* the last operation on the handler and the state before it
    curaCfg,           \* the preferences as read from the configuration file
    preferences,       \* the host's Preferences: key -> value, for the keys that exist
    \* ---- the write-started / menu / HTTP flow
    pc,                \* where the running handler is: "idle", "dialog", "returning"
                       \* ("unconstructed" before PrintLogUploader.__init__ has run)
    gcodeDict,         \* the scene's gcode_dict: "missing", "empty" or "sliced"
    promptSetting,     \* preference 3d_print_log/prompt_settings
    includeSnapshot,   \* preference 3d_print_log/include_snapshot
    cur,               \* the handler invocation in progress, or the last one
    inflight,          \* requests handed to the HTTP request manager, not yet answered
    posts,             \* every POST issued, in order
    lastReply,         \* the last reply given to a callback, and what the callback did
    browser            \* the url last given to webbrowser.open

rowVars   == <<materialLengths, settingName, settingUnit, extruderValue, row>>
notesVars == <<modelRows, notes>>
visVars   == <<loggedPref, visible, lastCall>>
flowVars  == <<pc, gcodeDict, promptSetting, includeSnapshot, cur,
               inflight, posts, lastReply, browser>>
headInputs == <<sceneModels, includeProfileName, includeFilamentName,
                includeObjectDetails>>
headVars  == <<notesHead, headInputs>>
prefVars  == <<curaCfg, preferences>>
vars      == <<rowVars, notesVars, visVars, flowVars, headVars, prefVars>>

(***************************************************************************)
(* Bounds of the model.                                                    *)
(***************************************************************************)
NumExtruders == 11     \* extruders of the active machine, positions 0 .. NumExtruders-1
MaxNonZero   == 2      \* entries of materialLengths that are not 0
MaxRows      == 4      \* rows of the setting definitions model
MaxPrefLen   == 3      \* tokens of an externally written logged_settings string
MaxInvocations == 2    \* handler invocations (write-started or menu) in one run
MaxLengths   == 3      \* entries of materialLengths when the whole notes are built
MaxModels    == 2      \* models on the build plate

None == "None"         \* Python's None
NoLength == <<>>       \* an entry of materialLengths that is None; a number x is <<x>>

(***************************************************************************)
(* Text helpers.                                                           *)
(***************************************************************************)
RECURSIVE JoinWith(_, _)
\* sep.join(seq of texts)
JoinWith(sep, ss) ==
    IF ss = <<>> THEN <<>>
    ELSE IF Len(ss) = 1 THEN Head(ss)
    ELSE Head(ss) \o sep \o JoinWith(sep, Tail(ss))

DigitChar == <<"0", "1", "2", "3", "4", "5", "6", "7", "8", "9">>

RECURSIVE Digits(_)
\* the decimal digits of a natural number, most significant first
Digits(n) == IF n < 10 THEN <<n>> ELSE Digits(n \div 10) \o <<n % 10>>

\* str(n) for a natural number n
StrOfInt(n) == [i \in 1..Len(Digits(n)) |-> DigitChar[Digits(n)[i] + 1]]

RECURSIVE IntOfDigits(_)
\* int(s) for a string of decimal digits
IntOfDigits(ds) ==
    IF ds = <<>> THEN 0 ELSE 10 * IntOfDigits(SubSeq(ds, 1, Len(ds) - 1)) + ds[Len(ds)]

RECURSIVE StrLess(_, _)
\* Python's s < t on two strings of decimal digits (lexicographic)
StrLess(s, t) ==
    IF t = <<>> THEN FALSE
    ELSE IF s = <<>> THEN TRUE
    ELSE IF Head(s) # Head(t) THEN Head(s) < Head(t)
    ELSE StrLess(Tail(s), Tail(t))

(***************************************************************************)
(* The machine: global_stack.extruderList and the setting definitions.     *)
(***************************************************************************)
Positions == 0 .. (NumExtruders - 1)

\* extruder.getMetaDataEntry("position"): the position as a string of digits
PositionEntry(p) == Digits(p)

\* global_stack.extruderList: the extruders (named by position), in position order
ExtruderList == [i \in 1..NumExtruders |-> i - 1]

Values == {"0.2", "0.4"}
Units  == {None, "", " ", "\t", "°C", "°F", "%", "mm"}

SettingKeys == {"layer_height", "line_width", "infill_pattern", "retraction_enable"}

\* global_stack.getProperty(key, "label")
Label(key) ==
    CASE key = "layer_height"      -> "Layer Height"
      [] key = "line_width"        -> "Line Width"
      [] key = "infill_pattern"    -> "Infill Pattern"
      [] key = "retraction_enable" -> "Enable Retraction"
      [] key = "resolution"        -> "Quality"
      [] key = "infill"            -> "Infill"
      [] key = "travel"            -> "Travel"
      [] OTHER                     -> key

(***************************************************************************)
(* _buildSettingRow                                                        *)
(***************************************************************************)
RECURSIVE SortedByPosition(_)
\* sorted(extruders, key=lambda extruder: extruder.getMetaDataEntry("position"))
SortedByPosition(S) ==
    IF S = {} THEN <<>>
    ELSE LET m == CHOOSE x \in S :
                    \A y \in S \ {x} : StrLess(PositionEntry(x), PositionEntry(y))
         IN  <<m>> \o SortedByPosition(S \ {m})

\* extruders = sorted(extruders, key=...), of global_stack.extruderList
SortedExtruders == SortedByPosition({ExtruderList[i] : i \in 1..Len(ExtruderList)})

\* the test, without its comparison with 0
UsedFilamentWhenListed(lengths, p) ==
    /\ Len(lengths) > p
    /\ lengths[p + 1] # NoLength

\* the extruder at this position used filament (the test both loops make)
UsedFilament(lengths, p) ==
    /\ Len(lengths) > p
    /\ lengths[p + 1] # NoLength
    /\ lengths[p + 1][1] > 0

\* str(unit).isspace(), on the texts of the model
IsSpace(unit) == unit \in {" ", "\t"}

\* _buildSettingRow that puts a space before every unit
FormatValueSpaced(value, unit) ==
    IF unit # None /\ unit # "" /\ ~IsSpace(unit) THEN <<value, " ", unit>> ELSE <<value>>

\* value and unit of one extruder, as _buildSettingRow formats them
FormatValue(value, unit) ==
    IF unit # None /\ unit # "" /\ ~IsSpace(unit)
    THEN IF unit \in {"°C", "°F", "%"} THEN <<value, unit>> ELSE <<value, " ", unit>>
    ELSE <<value>>

RECURSIVE SettingValues(_, _, _, _)
\* the OrderedDict settingValues: one item per extruder that used filament, in
\* the order of the sorted extruder list; key "Ex N", N = position + 1
SettingValues(extruders, lengths, valueOf, unit) ==
    IF extruders = <<>> THEN <<>>
    ELSE LET p    == IntOfDigits(PositionEntry(Head(extruders)))
             rest == SettingValues(Tail(extruders), lengths, valueOf, unit)
         IN  IF UsedFilament(lengths, p)
             THEN <<[key    |-> <<"Ex ">> \o StrOfInt(p + 1),
                     result |-> FormatValue(valueOf[Head(extruders)], unit)]>> \o rest
             ELSE rest

\* _buildSettingRow without the compact form: always one entry per extruder
BuildSettingRowNoMerge(name, lengths, valueOf, unit) ==
    LET settingValues == SettingValues(SortedExtruders, lengths, valueOf, unit)
    IN  <<Label(name), ": ">> \o
        JoinWith(<<", ">>,
                 [i \in 1..Len(settingValues) |->
                     settingValues[i].result \o <<" (">> \o settingValues[i].key \o <<")">>])

BuildSettingRow(name, lengths, valueOf, unit) ==
    LET extruders     == SortedExtruders
        settingValues == SettingValues(extruders, lengths, valueOf, unit)
        distinct      == {settingValues[i].result : i \in 1..Len(settingValues)}
    IN  IF Cardinality(distinct) = 1
        THEN <<Label(name), ": ">> \o settingValues[1].result
        ELSE <<Label(name), ": ">> \o
             JoinWith(<<", ">>,
                      [i \in 1..Len(settingValues) |->
                          settingValues[i].result \o <<" (">> \o settingValues[i].key \o <<")">>])

(***************************************************************************)
(* The logged_settings preference: a text whose tokens are setting keys    *)
(* and ";".                                                                *)
(***************************************************************************)
RECURSIVE Split(_)
\* setting_string.split(";"): the keys between the separators ("" where two
\* separators touch, or at an end)
Split(s) ==
    IF s = <<>> THEN <<"">>
    ELSE IF Head(s) = ";" THEN <<"">> \o Split(Tail(s))
    ELSE IF Len(s) = 1 THEN <<Head(s)>>
    ELSE <<Head(s)>> \o Split(Tail(Tail(s)))

\* set(setting_string.split(";"))
SplitSet(s) == {Split(s)[i] : i \in 1..Len(Split(s))}

\* ";".join(keys), keys in the order given
Join(keys) == JoinWith(<<";">>, [i \in 1..Len(keys) |-> IF keys[i] = "" THEN <<>> ELSE <<keys[i]>>])

(***************************************************************************)
(* PrintLogSettingsVisibilityHandler.  The signals are delivered           *)
(* synchronously, so one call runs the whole cascade                       *)
(*   setVisible -> visibilityChanged -> _updatePreference -> setValue      *)
(*              -> preferenceChanged -> _onPreferencesChanged -> ...       *)
(* A handler state is [pref, visible]; an operation yields the set of      *)
(* states it can end in (the order in which ";".join walks a set is not    *)
(* fixed).                                                                 *)
(***************************************************************************)
\* default_logged_settings, cut down to two of its sixteen keys
DefaultLoggedSettings == {"layer_height", "line_width"}

\* ";".join(self.default_logged_settings), the default of the preference
DefaultPref == Join(<<"layer_height", "line_width">>)

\* the sequences that list each element of a set once
Orders(S) == {o \in [1..Cardinality(S) -> S] : \A i, j \in 1..Cardinality(S) : i # j => o[i] # o[j]}

RECURSIVE OnPreferencesChanged(_)
RECURSIVE UpdatePreference(_)
RECURSIVE SetVisible(_, _)
RECURSIVE SetValue(_, _)

\* _updatePreference that never writes the preference
UpdatePreferenceSkipped(st) == {st}

\* self.setVisible(new_visible): store and emit visibilityChanged, if it differs
SetVisible(st, newVisible) ==
    IF newVisible = st.visible THEN {st}
    ELSE UpdatePreference([st EXCEPT !.visible = newVisible])

\* self._preferences.setValue(...): store and emit preferenceChanged, if it differs
SetValue(st, value) ==
    IF value = st.pref THEN {st}
    ELSE OnPreferencesChanged([st EXCEPT !.pref = value])

UpdatePreference(st) ==
    UNION {SetValue(st, Join(o)) : o \in Orders(st.visible)}

OnPreferencesChanged(st) ==
    IF st.pref = <<>>
    THEN \* resetPreference: back to the default, and preferenceChanged again
         IF st.pref = DefaultPref THEN {st}
         ELSE OnPreferencesChanged([st EXCEPT !.pref = DefaultPref])
    ELSE SetVisible(st, SplitSet(st.pref))

SetSettingVisibility(st, key, on) ==
    SetVisible(st, IF on THEN st.visible \cup {key} ELSE st.visible \ {key})

(***************************************************************************)
(* _generateNotes: the text before the "Settings:" header.  A line end is  *)
(* the token "\n", so "\n\n" is two tokens.                                *)
(***************************************************************************)
\* machine_manager.activeQualityOrQualityChangesName
ActiveQualityName == "Fine"

\* lines 520-522
ProfileBlock(include) ==
    IF include THEN <<"Profile: ", ActiveQualityName, "\n", "\n">> ELSE <<>>

\* brand + " " + name of extruder.material: a material per extruder, so that
\* the names tell the extruders apart
MaterialOf(p) == <<"Generic", " ", "PLA T">> \o StrOfInt(p)

RECURSIVE Materials(_, _)
\* the list materials: one name per extruder that used filament, in the order
\* of the sorted extruder list
Materials(extruders, lengths) ==
    IF extruders = <<>> THEN <<>>
    ELSE LET p    == IntOfDigits(PositionEntry(Head(extruders)))
             rest == Materials(Tail(extruders), lengths)
         IN  IF UsedFilament(lengths, p) THEN <<MaterialOf(Head(extruders))>> \o rest
             ELSE rest

\* the filament names, with their header even when no extruder used filament
FilamentBlockUnconditional(include, lengths) ==
    IF include
    THEN <<"Filament: ">> \o JoinWith(<<", ">>, Materials(SortedExtruders, lengths))
                         \o <<"\n", "\n">>
    ELSE <<>>

\* lines 527-550
FilamentBlock(include, lengths) ==
    IF include
    THEN LET materials == Materials(SortedExtruders, lengths)
         IN  IF Len(materials) > 0
             THEN <<"Filament: ">> \o JoinWith(<<", ">>, materials) \o <<"\n", "\n">>
             ELSE <<>>
    ELSE <<>>

\* A number is held as the text "{:.Nf}" gives for it, in two parts: its sign
\* and its magnitude in units of 10^-N (so -0.00001 is [neg |-> TRUE, units |-> 0]
\* for N = 4).
RECURSIVE Pow10(_)
Pow10(n) == IF n = 0 THEN 1 ELSE 10 * Pow10(n - 1)

RECURSIVE ZeroPadded(_, _)
\* the last n decimal digits of k, as characters
ZeroPadded(k, n) ==
    IF n = 0 THEN <<>> ELSE ZeroPadded(k \div 10, n - 1) \o <<DigitChar[(k % 10) + 1]>>

\* ("{:.%sf}" % digits).format(number)
FixedPoint(number, digits) ==
    (IF number.neg THEN <<"-">> ELSE <<>>)
        \o StrOfInt(number.units \div Pow10(digits))
        \o (IF digits > 0 THEN <<".">> \o ZeroPadded(number.units % Pow10(digits), digits)
            ELSE <<>>)

RECURSIVE RStrip(_, _)
\* text.rstrip(c)
RStrip(text, c) ==
    IF text # <<>> /\ text[Len(text)] = c THEN RStrip(SubSeq(text, 1, Len(text) - 1), c)
    ELSE text

\* _formatNumber
FormatNumber(number, numberOfDigitsToDisplay) ==
    LET formatted == RStrip(RStrip(FixedPoint(number, numberOfDigitsToDisplay), "0"), ".")
    IN  IF formatted = <<"-", "0">> THEN <<"0">> ELSE formatted

RECURSIVE ModelNotes(_)
\* the loop of _getObjectNotes over models["models"]
ModelNotes(models) ==
    IF models = <<>> THEN <<>>
    ELSE LET model == Head(models)
         IN  <<"  ", model.name, "\n">>
             \o <<"    Move: ">> \o FormatNumber(model.translation.x, 4) \o <<" x, ">>
             \o FormatNumber(model.translation.y, 4) \o <<" y, ">>
             \o FormatNumber(model.translation.z, 4) \o <<" z", "\n">>
             \o <<"    Scale: ">> \o FormatNumber(model.scale.x, 4) \o <<" x, ">>
             \o FormatNumber(model.scale.y, 4) \o <<" y, ">>
             \o FormatNumber(model.scale.z, 4) \o <<" z", "\n">>
             \o ModelNotes(Tail(models))

\* _getObjectNotes
GetObjectNotes(models) ==
    (IF Len(models) > 0 THEN <<"Objects:", "\n">> ELSE <<>>)
        \o ModelNotes(models)
        \o (IF Len(models) > 0 THEN <<"\n", "\n">> ELSE <<>>)

\* lines 553-555
ObjectsBlock(include, models) == IF include THEN GetObjectNotes(models) ELSE <<>>

\* the text _generateNotes has built when it reaches the "Settings:" header
NotesBeforeSettings(profile, filament, objects, lengths, models) ==
    ProfileBlock(profile) \o FilamentBlock(filament, lengths) \o ObjectsBlock(objects, models)

(***************************************************************************)
(* _generateNotes: the loop over the rows of the setting definitions model *)
(***************************************************************************)
Categories == {"resolution", "infill"}

\* global_stack.getProperty(item, "type")
TypeOf(item) == IF item \in Categories THEN "category" ELSE "float"

\* one pass of the loop body, on the loop's local variables
NotesStep(acc, item, logged, lengths, valueOf, unitOf) ==
    IF TypeOf(item) = "category"
    THEN [notes           |-> IF acc.currentCategory # None /\ acc.categoryData # {}
                              THEN acc.notes \o acc.categoryString
                              ELSE acc.notes,
          categoryData    |-> IF acc.currentCategory # None THEN {} ELSE acc.categoryData,
          currentCategory |-> Label(item),
          categoryString  |-> <<Label(item), "\n">>]
    ELSE IF item \in logged
    THEN [acc EXCEPT
            !.categoryData   = @ \cup {item},
            !.categoryString = @ \o <<"  ">>
                                 \o BuildSettingRow(item, lengths, valueOf[item], unitOf[item])
                                 \o <<"\n">>]
    ELSE acc

RECURSIVE NotesLoop(_, _, _, _, _, _)
NotesLoop(acc, rows, logged, lengths, valueOf, unitOf) ==
    IF rows = <<>>
    THEN IF acc.categoryData # {} THEN acc.notes \o acc.categoryString ELSE acc.notes
    ELSE NotesLoop(NotesStep(acc, Head(rows), logged, lengths, valueOf, unitOf),
                   Tail(rows), logged, lengths, valueOf, unitOf)

\* the text _generateNotes returns, from the "Settings:" header on
GenerateNotes(rows, settingString, lengths, valueOf, unitOf) ==
    NotesLoop([notes           |-> <<"Settings:", "\n">>,
               categoryData    |-> {},
               currentCategory |-> None,
               categoryString  |-> <<>>],
              rows, SplitSet(settingString), lengths, valueOf, unitOf)

(***************************************************************************)
(* The payload.  A dict is the sequence of its items [k, v] in insertion   *)
(* order, each value held as its JSON text.                                *)
(***************************************************************************)
ApiUrl        == "https://api.3dprintlog.com/api/Cura/settings"
NewPrintUrl   == "https://www.3dprintlog.com/prints/new/cura"
CuraVersion   == "5.4.0"     \* self._application.getVersion()
PluginVersion == "1.4.1"     \* plugin.json, read by __init__
HttpOk        == 200

DictKeys(d) == [i \in 1..Len(d) |-> d[i].k]

HasKey(d, k) == \E i \in 1..Len(d) : d[i].k = k

\* d[k] = v
DictSet(d, k, v) ==
    IF HasKey(d, k)
    THEN [i \in 1..Len(d) |-> IF d[i].k = k THEN [k |-> k, v |-> v] ELSE d[i]]
    ELSE Append(d, [k |-> k, v |-> v])

RECURSIVE DictUpdate(_, _)
\* d.update(e)
DictUpdate(d, e) ==
    IF e = <<>> THEN d ELSE DictUpdate(DictSet(d, Head(e).k, Head(e).v), Tail(e))

\* json.dumps(d)
JsonDumps(d) ==
    <<"{">> \o JoinWith(<<",">>, [i \in 1..Len(d) |-> <<d[i].k, ":">> \o d[i].v]) \o <<"}">>

GetCuraMetadata ==
    <<[k |-> "time_stamp", v |-> <<"1699174800.0">>],
      [k |-> "cura_version", v |-> <<CuraVersion>>],
      [k |-> "cura_build_type", v |-> <<"">>],
      [k |-> "plugin_version", v |-> <<PluginVersion>>]>>

GetPrintTime == <<[k |-> "estimated_print_time_seconds", v |-> <<"3600">>]>>

GetMaterialUsage == <<[k |-> "material_used_mg", v |-> <<"12500">>]>>

GetMachineMetadata ==
    <<[k |-> "definition_id", v |-> <<"creality_ender3">>],
      [k |-> "name", v |-> <<"Creality Ender-3">>],
      [k |-> "manufacturer", v |-> <<"Creality3D">>]>>

GetModelInformation == <<[k |-> "models", v |-> <<"[", "]">>]>>

\* the steps of _sendTo3DPrintLog that assemble the settings, in order
AssemblySteps == <<"notes", "print_name", "metadata", "print_time", "material_usage",
                   "machine_metadata", "model_information">>

AssemblyFaults == {AssemblySteps[i] : i \in 1..Len(AssemblySteps)}

(***************************************************************************)
(* _generateSnapshot.  A capture says what the host does when asked:       *)
(*   backend: what backend.getLatestSnapshot gives ("image", "none" when   *)
(*            it is missing or returns None, "raises")                     *)
(*   own:     what Snapshot.snapshot gives ("image", "none", "raises")     *)
(*   encode:  what saving and encoding the image gives ("text", "empty",   *)
(*            "raises")                                                    *)
(***************************************************************************)
\* "-" where the step is never reached
Captures ==
    {c \in [backend : {"image", "none", "raises"},
            own     : {"image", "none", "raises", "-"},
            encode  : {"text", "empty", "raises", "-"}] :
        /\ (c.own = "-") <=> (c.backend # "none")
        /\ (c.encode = "-") <=> ~(c.backend = "image" \/ c.own = "image")}

NoCapture == [backend |-> "-", own |-> "-", encode |-> "-"]

EncodedSnapshot == <<"iVBORw0KGgo=">>
EmptyText == <<>>

\* the value _generateSnapshot returns: None, or the base64 text
GenerateSnapshot(capture) ==
    IF capture.backend = "raises" THEN None
    ELSE IF capture.backend = "none" /\ capture.own = "raises" THEN None
    ELSE IF capture.backend = "none" /\ capture.own = "none" THEN None
    ELSE CASE capture.encode = "text"   -> EncodedSnapshot
           [] capture.encode = "empty"  -> EmptyText
           [] capture.encode = "raises" -> None

\* "if snapshot:" in _sendTo3DPrintLog
Truthy(snapshot) == snapshot # None /\ snapshot # EmptyText

(***************************************************************************)
(* _sendToApi and _sendTo3DPrintLog                                        *)
(***************************************************************************)
\* _sendToApi that issues the POST twice
SendToApiTwice(inv, data) ==
    [posts    |-> <<[inv |-> inv, url |-> ApiUrl, body |-> JsonDumps(data)],
                    [inv |-> inv, url |-> ApiUrl, body |-> JsonDumps(data)]>>,
     awaiting |-> FALSE]

\* _sendToApi that returns only once the reply has been handled
SendToApiBlocking(inv, data) ==
    [posts    |-> <<[inv |-> inv, url |-> ApiUrl, body |-> JsonDumps(data)]>>,
     awaiting |-> TRUE]

\* the POSTs the call hands to the request manager, and whether it waits
\* for their reply before it returns
SendToApi(inv, data) ==
    [posts    |-> <<[inv |-> inv, url |-> ApiUrl, body |-> JsonDumps(data)]>>,
     awaiting |-> FALSE]

\* the settings dict, before the snapshot is added
AssembledSettings(note) ==
    DictUpdate(DictUpdate(DictUpdate(DictUpdate(DictUpdate(
        <<[k |-> "note", v |-> note], [k |-> "print_name", v |-> <<"benchy.stl">>]>>,
        GetCuraMetadata), GetPrintTime), GetMaterialUsage), GetMachineMetadata),
        GetModelInformation)

\* _sendTo3DPrintLog that adds whatever _generateSnapshot returned
SettingsWithSnapshotAlways(settings, include, capture) ==
    IF include
    THEN DictSet(settings, "snapshot",
                 IF GenerateSnapshot(capture) = None THEN <<"null">>
                 ELSE GenerateSnapshot(capture))
    ELSE settings

\* lines 208-215: the snapshot entry
SettingsWithSnapshot(settings, include, capture) ==
    IF include /\ Truthy(GenerateSnapshot(capture))
    THEN DictSet(settings, "snapshot", GenerateSnapshot(capture))
    ELSE settings

\* _sendTo3DPrintLog that submits what it has when a step of the assembly raises
SendTo3DPrintLogPartial(inv, fault, include, capture, note) ==
    IF fault = "submit"
    THEN [posts |-> <<>>, awaiting |-> FALSE, logged |-> "exception"]
    ELSE LET settings == IF fault \in AssemblyFaults THEN <<>>
                         ELSE SettingsWithSnapshot(AssembledSettings(note), include, capture)
             data     == <<[k |-> "curaVersion", v |-> <<CuraVersion>>],
                           [k |-> "pluginVersion", v |-> <<PluginVersion>>],
                           [k |-> "settings", v |-> JsonDumps(settings)]>>
             sent     == SendToApi(inv, data)
         IN  [posts |-> sent.posts, awaiting |-> sent.awaiting,
              logged |-> IF fault \in AssemblyFaults THEN "exception" ELSE "none"]

\* _sendTo3DPrintLog: fault names the step that raises ("none": no step does).
\* Yields what the try block, or its except clause, did.
SendTo3DPrintLog(inv, fault, include, capture, note) ==
    IF fault \in AssemblyFaults \cup {"submit"}
    THEN [posts |-> <<>>, awaiting |-> FALSE, logged |-> "exception"]
    ELSE LET settings == SettingsWithSnapshot(AssembledSettings(note), include, capture)
             data     == <<[k |-> "curaVersion", v |-> <<CuraVersion>>],
                           [k |-> "pluginVersion", v |-> <<PluginVersion>>],
                           [k |-> "settings", v |-> JsonDumps(settings)]>>
             sent     == SendToApi(inv, data)
         IN  [posts |-> sent.posts, awaiting |-> sent.awaiting, logged |-> "none"]

(***************************************************************************)
(* _hasSlicedModel and _shouldSendTo3DPrintLog                             *)
(***************************************************************************)
\* _hasSlicedModel that only looks for the attribute
HasSlicedModelWhenPresent(scene) == scene # "missing"

HasSlicedModel(scene) == scene # "missing" /\ scene # "empty"

\* the values preference 3d_print_log/prompt_settings can hold: the three the
\* settings dialog offers, and a text it does not know
PromptSettings == {"always_ask", "send_after_save", "do_not_send", "ask_once"}

\* _shouldSendTo3DPrintLog that knows 'send_after_save' only
ShouldSendUnlessAsked(scene, prompt) ==
    IF ~HasSlicedModel(scene) THEN "no"
    ELSE IF prompt = "send_after_save" THEN "yes"
    ELSE "ask"

\* "no": return False; "yes": return True; "ask": show the confirmation dialog
ShouldSendTo3DPrintLog(scene, prompt) ==
    IF ~HasSlicedModel(scene) THEN "no"
    ELSE IF prompt = "send_after_save" THEN "yes"
    ELSE IF prompt = "do_not_send" THEN "no"
    ELSE "ask"

\* _onSendMenuButtonClicked that asks _shouldSendTo3DPrintLog
SendFromMenuByPreference(scene, prompt) == ShouldSendTo3DPrintLog(scene, prompt) = "yes"

\* send_to_3D_print_log in _onSendMenuButtonClicked: the preference is at
\* hand, and is not read
SendFromMenu(scene, prompt) == HasSlicedModel(scene)

\* a handler with no try/except of its own
CaughtByNoHandler(kind) == FALSE

\* an exception that reaches the top of the handler is caught there: only
\* _onWriteStarted wraps its body in try/except
CaughtByHandler(kind) == kind = "write"

(***************************************************************************)
(* The replies: _onRequestFinished, _onRequestError, _openBrowser          *)
(***************************************************************************)
SettingIds == {"0b9d6f3e", "a b"}

\* urllib.parse.quote_plus, on the texts of the model
QuotePlus(text) == IF text = "a b" THEN "a+b" ELSE text

\* urllib.parse.unquote_plus, on the texts of the model
UnquotePlus(text) == IF text = "a+b" THEN "a b" ELSE text

\* urlencode(data)
UrlEncode(d) ==
    JoinWith(<<"&">>, [i \in 1..Len(d) |-> <<d[i].k, "=", QuotePlus(d[i].v)>>])

\* the bodies a reply can carry
ReplyBodies ==
    {<<"{", "newSettingId", ":", id, "}">> : id \in SettingIds}
        \cup {<<"{", "}">>, <<"\\xff">>}

\* bytes.decode("utf-8") succeeds
DecodesAsUtf8(body) == body # <<"\\xff">>

\* json.loads(text) succeeds and gives a dict with this key
LoadsWithKey(body, key) ==
    /\ DecodesAsUtf8(body)
    /\ Len(body) = 5
    /\ body[1] = "{" /\ body[2] = key /\ body[3] = ":" /\ body[5] = "}"

\* the url _openBrowser opens for a setting id
BrowserUrl(newGuid) ==
    <<NewPrintUrl, "?">> \o
    UrlEncode(<<[k |-> "cura_version", v |-> CuraVersion],
                [k |-> "plugin_version", v |-> PluginVersion],
                [k |-> "settingId", v |-> newGuid]>>)

\* _onRequestFinished that takes every reply for a success
OnRequestFinishedAnyStatus(reply) ==
    IF LoadsWithKey(reply.body, "newSettingId")
    THEN [outcome |-> "browser", logged |-> "none", url |-> BrowserUrl(reply.body[4])]
    ELSE [outcome |-> "raised", logged |-> "none", url |-> <<>>]

\* _onRequestFinished: what the callback does with a reply
OnRequestFinished(reply) ==
    IF reply.status = HttpOk
    THEN IF LoadsWithKey(reply.body, "newSettingId")
         THEN [outcome |-> "browser", logged |-> "none", url |-> BrowserUrl(reply.body[4])]
         ELSE \* decode, json.loads or results["newSettingId"] raises
              [outcome |-> "raised", logged |-> "none", url |-> <<>>]
    ELSE IF DecodesAsUtf8(reply.body)
         THEN [outcome |-> "logged", logged |-> "error", url |-> <<>>]
         ELSE [outcome |-> "raised", logged |-> "none", url |-> <<>>]

\* _onRequestError
OnRequestError(reply) == [outcome |-> "logged", logged |-> "error", url |-> <<>>]

(***************************************************************************)
(* The preferences and PrintLogUploader.__init__.  The host's Preferences  *)
(* are a function from the keys that exist (written without their          *)
(* "3d_print_log/" prefix) to their values; the booleans are the texts     *)
(* "True" and "False" the configuration file holds, which getValue turns   *)
(* into True and False.                                                    *)
(***************************************************************************)
PrefKeys == {"logged_settings", "include_profile_name", "include_filament_name",
             "include_snapshot", "prompt_settings", "include_object_details",
             "bypass_prompt"}

\* preferences.addPreference(key, default): a key that exists keeps its value
AddPreference(prefs, key, default) ==
    IF key \in DOMAIN prefs THEN prefs ELSE prefs @@ (key :> default)

\* preferences.getValue(key): None for a key that does not exist
GetValue(prefs, key) == IF key \in DOMAIN prefs THEN prefs[key] ELSE None

\* preferences.setValue(key, value), of a key that exists
SetPreference(prefs, key, value) ==
    IF key \in DOMAIN prefs THEN [prefs EXCEPT ![key] = value] ELSE prefs

\* preferences.removePreference(key)
RemovePreference(prefs, key) == [k \in (DOMAIN prefs) \ {key} |-> prefs[k]]

\* "if (value):" on what getValue returned
IsTrue(value) == value \notin {None, "False", ""}

\* the migration that takes every bypass_prompt for a true one
MigrateWheneverPresent(prefs) ==
    IF "bypass_prompt" \in DOMAIN prefs
    THEN RemovePreference(SetPreference(prefs, "prompt_settings", "send_after_save"),
                          "bypass_prompt")
    ELSE prefs

\* lines 121-132: transfer the deprecated bypass_prompt to prompt_settings
MigrateBypassPrompt(prefs) ==
    LET bypass_prompt == GetValue(prefs, "bypass_prompt")
    IN  IF bypass_prompt # None
        THEN RemovePreference(
                 IF IsTrue(bypass_prompt)
                 THEN SetPreference(prefs, "prompt_settings", "send_after_save")
                 ELSE prefs,
                 "bypass_prompt")
        ELSE prefs

\* lines 95-119: the six addPreference calls
AddPreferences(prefs) ==
    AddPreference(AddPreference(AddPreference(AddPreference(AddPreference(AddPreference(
        prefs,
        "logged_settings", DefaultPref),
        "include_profile_name", "True"),
        "include_filament_name", "True"),
        "include_snapshot", "True"),
        "prompt_settings", "always_ask"),
        "include_object_details", "True")

\* the preferences PrintLogUploader.__init__ leaves
Constructed(prefs) == MigrateBypassPrompt(AddPreferences(prefs))

\* a configuration file with no key of the plugin
NoCfg == [k \in {} |-> ""]

\* the configuration files: any of the keys, each with one of its values
Configs ==
    { [k \in K |-> v[k]] :
        K \in SUBSET PrefKeys,
        v \in [logged_settings        : {<<"layer_height">>},
               include_profile_name   : {"True", "False"},
               include_filament_name  : {"True", "False"},
               include_snapshot       : {"True", "False"},
               prompt_settings        : PromptSettings,
               include_object_details : {"True", "False"},
               bypass_prompt          : {"True", "False", ""}] }

InitHeadVars ==
    /\ notesHead = <<>>
    /\ sceneModels = <<>>
    /\ includeProfileName = TRUE
    /\ includeFilamentName = TRUE
    /\ includeObjectDetails = TRUE

InitPrefVars ==
    /\ curaCfg = NoCfg
    /\ preferences = Constructed(NoCfg)

(***************************************************************************)
(* The formatter on its own: every print information within the bounds,    *)
(* and _buildSettingRow applied to a setting of every unit and values.     *)
(***************************************************************************)
\* materialLengths of first..last entries, at most MaxNonZero of them not 0,
\* those of the kinds given
LengthConfigsOf(kinds, first, last) ==
    UNION { UNION { { [i \in 1..m |-> IF (i - 1) \in nz THEN kind[i - 1] ELSE <<0>>] :
                        kind \in [nz -> kinds] } :
                    nz \in {s \in SUBSET (0 .. (m - 1)) : Cardinality(s) <= MaxNonZero} } :
            m \in first .. last }

\* materialLengths of first..last entries, at most MaxNonZero of them not 0
LengthConfigs(first, last) == LengthConfigsOf({NoLength, <<1>>}, first, last)

UsedPositions(lengths) == {p \in Positions : UsedFilament(lengths, p)}

NoRow == <<>>

InitRowVars ==
    /\ settingName = ""
    /\ settingUnit = <<>>
    /\ extruderValue = <<>>
    /\ row = NoRow

InitNotesVars ==
    /\ modelRows = <<>>
    /\ notes = <<>>

InitVisVars ==
    /\ loggedPref = DefaultPref
    /\ visible = DefaultLoggedSettings
    /\ lastCall = [op |-> "init"]

NoCall  == [id |-> 0, kind |-> "none", raised |-> "none", propagated |-> FALSE,
            logged |-> "none", dialog |-> "none", answer |-> "none", sent |-> FALSE,
            capture |-> NoCapture, snapshot |-> None, awaiting |-> FALSE,
            returned |-> TRUE]
NoReply == [request |-> 0, kind |-> "none", status |-> 0, body |-> <<>>,
            outcome |-> "none", logged |-> "none", url |-> <<>>, opened |-> "-"]

InitFlowVars ==
    /\ pc = "idle"
    /\ gcodeDict = "missing"
    /\ promptSetting = "always_ask"
    /\ includeSnapshot = TRUE
    /\ cur = NoCall
    /\ inflight = {}
    /\ posts = <<>>
    /\ lastReply = NoReply
    /\ browser = <<>>

InitRow ==
    /\ materialLengths \in LengthConfigs(0, NumExtruders)
    /\ InitRowVars
    /\ InitNotesVars
    /\ InitVisVars
    /\ InitFlowVars
    /\ InitHeadVars
    /\ InitPrefVars

\* notes = ... self._buildSettingRow(item) ..., for one setting
BuildSettingRowCall ==
    /\ row = NoRow
    /\ \E name \in {"layer_height"}, unit \in Units,
          valueOf \in [UsedPositions(materialLengths) -> Values] :
          /\ settingName' = name
          /\ settingUnit' = (name :> unit)
          /\ extruderValue' = (name :> valueOf)
          /\ row' = BuildSettingRow(name, materialLengths, valueOf, unit)
    /\ UNCHANGED <<headVars, prefVars, materialLengths, notesVars, visVars, flowVars>>

NextRow == BuildSettingRowCall

(***************************************************************************)
(* The notes on their own: every sequence of model rows and every          *)
(* logged_settings string within the bounds.                               *)
(***************************************************************************)
RowItems == Categories \cup {"layer_height", "line_width", "infill_pattern"}

\* the model lists each key once
RowSequences ==
    UNION { {r \in [1..n -> RowItems] : \A i, j \in 1..n : i # j => r[i] # r[j]} :
            n \in 0 .. MaxRows }

PrefTokens == {";", "layer_height", "line_width", "resolution"}

\* texts of at most n tokens; two keys are always separated by a ";"
PrefStrings(n) ==
    UNION { {s \in [1..k -> PrefTokens] :
                \A i \in 1..(k - 1) : s[i] = ";" \/ s[i + 1] = ";"} :
            k \in 0 .. n }

NoNotes == <<>>

InitNotes ==
    /\ modelRows \in RowSequences
    /\ loggedPref \in PrefStrings(MaxPrefLen)
    /\ notes = NoNotes
    /\ materialLengths = <<<<1>>, <<1>>>>
    /\ settingName = ""
    /\ settingUnit = [k \in SettingKeys |-> IF k = "infill_pattern" THEN None ELSE "mm"]
    /\ extruderValue = [k \in SettingKeys |->
                          [p \in Positions |-> IF k = "line_width" /\ p = 1 THEN "0.4" ELSE "0.2"]]
    /\ row = NoRow
    /\ visible = SplitSet(loggedPref)
    /\ lastCall = [op |-> "init"]
    /\ InitFlowVars
    /\ InitHeadVars
    /\ InitPrefVars

\* settings["note"] = self._generateNotes()
GenerateNotesCall ==
    /\ notes = NoNotes
    /\ notesHead' = NotesBeforeSettings(includeProfileName, includeFilamentName,
                                        includeObjectDetails, materialLengths, sceneModels)
    /\ notes' = GenerateNotes(modelRows, loggedPref, materialLengths, extruderValue, settingUnit)
    /\ UNCHANGED <<headInputs, prefVars, modelRows, rowVars, visVars, flowVars>>

NextNotes == GenerateNotesCall

(***************************************************************************)
(* The whole notes: every choice of the include_* preferences, of the      *)
(* print information and of the models on the build plate, for a model of  *)
(* one category and two logged settings.                                   *)
(***************************************************************************)
Num(neg, units) == [neg |-> neg, units |-> units]

\* the models _getModelInformation can list (numbers in units of 0.0001)
SceneNodes ==
    <<[name        |-> "3DBenchy.stl",
       translation |-> [x |-> Num(FALSE, 0), y |-> Num(TRUE, 125000), z |-> Num(TRUE, 0)],
       scale       |-> [x |-> Num(FALSE, 600000), y |-> Num(FALSE, 310025),
                        z |-> Num(FALSE, 480000)]],
      [name        |-> "cube.stl",
       translation |-> [x |-> Num(FALSE, 1000500), y |-> Num(FALSE, 7), z |-> Num(FALSE, 0)],
       scale       |-> [x |-> Num(FALSE, 200000), y |-> Num(FALSE, 200000),
                        z |-> Num(FALSE, 200000)]],
      [name        |-> "bracket.stl",
       translation |-> [x |-> Num(TRUE, 35500), y |-> Num(FALSE, 0), z |-> Num(FALSE, 0)],
       scale       |-> [x |-> Num(FALSE, 101000), y |-> Num(FALSE, 52500),
                        z |-> Num(FALSE, 30000)]]>>

\* the line widths of the extruders: one of its own for each of the first three
NozzleWidths == <<"0.4", "0.6", "0.8">>

InitNotesHead ==
    /\ includeProfileName \in BOOLEAN
    /\ includeFilamentName \in BOOLEAN
    /\ includeObjectDetails \in BOOLEAN
    /\ materialLengths \in LengthConfigsOf({NoLength, <<1>>, <<-1>>}, 0, MaxLengths)
    /\ sceneModels \in {SubSeq(SceneNodes, 1, n) : n \in 0 .. MaxModels}
    /\ modelRows = <<"resolution", "layer_height", "line_width">>
    /\ loggedPref = DefaultPref
    /\ notes = NoNotes
    /\ notesHead = <<>>
    /\ settingName = ""
    /\ settingUnit = [k \in SettingKeys |-> "mm"]
    /\ extruderValue = [k \in SettingKeys |->
                          [p \in Positions |->
                              IF k = "line_width" /\ p < Len(NozzleWidths)
                              THEN NozzleWidths[p + 1] ELSE "0.2"]]
    /\ row = NoRow
    /\ visible = SplitSet(loggedPref)
    /\ lastCall = [op |-> "init"]
    /\ InitFlowVars
    /\ InitPrefVars

SpecNotesHead == InitNotesHead /\ [][NextNotes]_vars

SpecNotes == InitNotes /\ [][NextNotes]_vars

SpecRow == InitRow /\ [][NextRow]_vars

(***************************************************************************)
(* The visibility handler on its own: the settings dialog ticks and        *)
(* unticks settings, and the preference is written from outside.           *)
(***************************************************************************)
VisKeys == {"layer_height", "line_width", "retraction_enable"}

\* the handler as constructed: __init__ reads the preference once
InitVis ==
    /\ \E st \in OnPreferencesChanged([pref |-> DefaultPref, visible |-> {}]) :
          /\ loggedPref = st.pref
          /\ visible = st.visible
    /\ lastCall = [op |-> "init"]
    /\ InitRowVars
    /\ materialLengths = <<>>
    /\ InitNotesVars
    /\ InitFlowVars
    /\ InitHeadVars
    /\ InitPrefVars

\* the dialog calls setSettingVisibility(key, visible)
SetSettingVisibilityCall ==
    /\ \E key \in VisKeys, on \in BOOLEAN :
          /\ \E st \in SetSettingVisibility([pref |-> loggedPref, visible |-> visible], key, on) :
                /\ loggedPref' = st.pref
                /\ visible' = st.visible
          /\ lastCall' = [op |-> "set", key |-> key, on |-> on, before |-> visible]
    /\ UNCHANGED <<headVars, prefVars, rowVars, notesVars, flowVars>>

\* someone else writes a non-empty value to the preference
ExternalPreferenceChange ==
    /\ \E value \in PrefStrings(MaxPrefLen) \ {<<>>} :
          /\ \E st \in SetValue([pref |-> loggedPref, visible |-> visible], value) :
                /\ loggedPref' = st.pref
                /\ visible' = st.visible
          /\ lastCall' = [op |-> "external", value |-> value]
    /\ UNCHANGED <<headVars, prefVars, rowVars, notesVars, flowVars>>

NextVis == SetSettingVisibilityCall \/ ExternalPreferenceChange

SpecVis == InitVis /\ [][NextVis]_vars

(***************************************************************************)
(* The construction of the plugin, on every configuration file.            *)
(***************************************************************************)
InitPrefs ==
    /\ curaCfg \in Configs
    /\ preferences = curaCfg
    /\ pc = "unconstructed"
    /\ gcodeDict = "missing"
    /\ promptSetting = "always_ask"
    /\ includeSnapshot = TRUE
    /\ cur = NoCall
    /\ inflight = {}
    /\ posts = <<>>
    /\ lastReply = NoReply
    /\ browser = <<>>
    /\ InitRowVars
    /\ materialLengths = <<>>
    /\ InitNotesVars
    /\ InitVisVars
    /\ InitHeadVars

\* the host loads the plugin: PrintLogUploader.__init__
Construct ==
    /\ pc = "unconstructed"
    /\ preferences' = Constructed(preferences)
    /\ pc' = "idle"
    /\ UNCHANGED <<curaCfg, gcodeDict, promptSetting, includeSnapshot, cur, inflight, posts,
                   lastReply, browser, rowVars, notesVars, visVars, headVars>>

NextPrefs == Construct

SpecPrefs == InitPrefs /\ [][NextPrefs]_vars

(***************************************************************************)
(* The plugin at work: g-code is written or the menu item is clicked, the  *)
(* user answers the dialog, the request manager delivers replies.          *)
(***************************************************************************)
Init ==
    /\ pc = "idle"
    /\ gcodeDict \in {"missing", "empty", "sliced"}
    /\ promptSetting \in PromptSettings
    /\ includeSnapshot \in BOOLEAN
    /\ cur = NoCall
    /\ inflight = {}
    /\ posts = <<>>
    /\ lastReply = NoReply
    /\ browser = <<>>
    /\ modelRows = <<"resolution", "layer_height">>
    /\ notes = NoNotes
    /\ materialLengths = <<<<1>>>>
    /\ settingName = ""
    /\ settingUnit = ("layer_height" :> "mm")
    /\ extruderValue = ("layer_height" :> (0 :> "0.2"))
    /\ row = NoRow
    /\ InitVisVars
    /\ InitHeadVars
    /\ InitPrefVars

\* the faults an invocation can meet on its way through _sendTo3DPrintLog
SendFaults == AssemblyFaults \cup {"submit"}

\* the callbacks of the request manager run from the event loop: between
\* handlers, inside dialog.exec(), or while a call waits for its reply
EventLoopRuns == pc \in {"idle", "dialog"} \/ (pc = "returning" /\ cur.awaiting)

\* the handler leaves without sending
Leave(call) ==
    /\ cur' = call
    /\ pc' = "returning"
    /\ UNCHANGED <<inflight, posts, notes, notesHead>>

\* settings["note"] = self._generateNotes(), on the state as it is
CurrentNotes ==
    [head     |-> NotesBeforeSettings(includeProfileName, includeFilamentName,
                                      includeObjectDetails, materialLengths, sceneModels),
     settings |-> GenerateNotes(modelRows, loggedPref, materialLengths, extruderValue,
                                settingUnit)]

\* the handler runs _sendTo3DPrintLog
Send(call, fault, capture, note) ==
    LET done == SendTo3DPrintLog(call.id, fault, includeSnapshot, capture,
                                 note.head \o note.settings)
    IN  /\ cur' = [call EXCEPT
                     !.sent     = TRUE,
                     !.raised   = fault,
                     !.logged   = done.logged,
                     !.capture  = capture,
                     !.snapshot = IF includeSnapshot /\ fault \notin AssemblyFaults
                                  THEN GenerateSnapshot(capture) ELSE None,
                     !.awaiting = done.awaiting]
        /\ posts' = posts \o done.posts
        /\ inflight' = IF done.posts = <<>> THEN inflight ELSE inflight \cup {call.id}
        /\ notes' = IF fault = "notes" THEN notes ELSE note.settings
        /\ notesHead' = IF fault = "notes" THEN notesHead ELSE note.head
        /\ pc' = "returning"

\* the inputs of one run of _sendTo3DPrintLog: which step raises, and what the
\* snapshot capture does when it is reached
SendInputs ==
    {<<"none", c>> : c \in (IF includeSnapshot THEN Captures ELSE {NoCapture})}
        \cup {<<"submit", IF includeSnapshot
                          THEN [backend |-> "image", own |-> "-", encode |-> "text"]
                          ELSE NoCapture>>}
        \cup {<<f, NoCapture>> : f \in AssemblyFaults}

NewCall(kind) == [NoCall EXCEPT !.id = cur.id + 1, !.kind = kind, !.returned = FALSE]

\* an exception raised before _sendTo3DPrintLog is entered
RaisedWhileDeciding(call) ==
    [call EXCEPT !.raised     = "decide",
                 !.propagated = ~CaughtByHandler(call.kind),
                 !.logged     = IF CaughtByHandler(call.kind) THEN "exception" ELSE "none"]

\* writeStarted is emitted: _onWriteStarted, up to the dialog or to its end
OnWriteStarted ==
    /\ pc = "idle"
    /\ cur.id < MaxInvocations
    /\ LET call     == NewCall("write")
           decision == ShouldSendTo3DPrintLog(gcodeDict, promptSetting)
       IN  \/ Leave(RaisedWhileDeciding(call))
           \/ /\ decision = "no"
              /\ Leave([call EXCEPT !.logged = "denied"])
           \/ /\ decision = "ask"
              /\ cur' = [call EXCEPT !.dialog = "confirm"]
              /\ pc' = "dialog"
              /\ UNCHANGED <<inflight, posts, notes, notesHead>>
           \/ /\ decision = "yes"
              /\ \E note \in {CurrentNotes} : \E in \in SendInputs : Send(call, in[1], in[2], note)
    /\ UNCHANGED <<headInputs, prefVars, gcodeDict, promptSetting, includeSnapshot,
                   lastReply, browser, modelRows, rowVars, visVars>>

\* the user answers the confirmation dialog: the rest of _onWriteStarted
DialogAnswered ==
    /\ pc = "dialog"
    /\ \/ Leave([cur EXCEPT !.answer = "cancel", !.logged = "denied"])
       \/ \E note \in {CurrentNotes} : \E in \in SendInputs :
              Send([cur EXCEPT !.answer = "ok"], in[1], in[2], note)
    /\ UNCHANGED <<headInputs, prefVars, gcodeDict, promptSetting, includeSnapshot,
                   lastReply, browser, modelRows, rowVars, visVars>>

\* the menu item "Send to 3D Print Log": _onSendMenuButtonClicked
OnSendMenuButtonClicked ==
    /\ pc = "idle"
    /\ cur.id < MaxInvocations
    /\ LET call == NewCall("menu")
       IN  \/ Leave(RaisedWhileDeciding(call))
           \/ /\ ~SendFromMenu(gcodeDict, promptSetting)
              /\ Leave([call EXCEPT !.logged = "not_sliced", !.dialog = "not_sliced"])
           \/ /\ SendFromMenu(gcodeDict, promptSetting)
              /\ \E note \in {CurrentNotes} : \E in \in SendInputs : Send(call, in[1], in[2], note)
    /\ UNCHANGED <<headInputs, prefVars, gcodeDict, promptSetting, includeSnapshot,
                   lastReply, browser, modelRows, rowVars, visVars>>

\* the handler returns to the host (or leaves it by its exception)
HandlerReturn ==
    /\ pc = "returning"
    /\ cur.awaiting => cur.id \notin inflight
    /\ pc' = "idle"
    /\ cur' = [cur EXCEPT !.returned = TRUE]
    /\ UNCHANGED <<headVars, prefVars, gcodeDict, promptSetting, includeSnapshot, inflight, posts, lastReply,
                   browser, notesVars, rowVars, visVars>>

Statuses == {HttpOk, 500}

\* the request manager calls callback=self._onRequestFinished
RequestFinished ==
    /\ EventLoopRuns
    /\ \E r \in inflight, status \in Statuses, body \in ReplyBodies :
          LET reply == [request |-> r, kind |-> "finished", status |-> status, body |-> body]
              did   == OnRequestFinished(reply)
          IN  \E opened \in (IF did.outcome = "browser" THEN {"ok", "failed"} ELSE {"-"}) :
                /\ lastReply' = [request |-> r, kind |-> "finished", status |-> status,
                                 body |-> body, outcome |-> did.outcome,
                                 logged |-> IF opened = "failed"
                                            THEN "open_failed" ELSE did.logged,
                                 url |-> did.url, opened |-> opened]
                /\ browser' = IF did.outcome = "browser" THEN did.url ELSE browser
                /\ inflight' = inflight \ {r}
    /\ UNCHANGED <<headVars, prefVars, pc, gcodeDict, promptSetting, includeSnapshot, cur, posts,
                   notesVars, rowVars, visVars>>

\* the request manager calls error_callback=self._onRequestError
RequestError ==
    /\ EventLoopRuns
    /\ \E r \in inflight :
          LET reply == [request |-> r, kind |-> "error", status |-> 0, body |-> <<>>]
              did   == OnRequestError(reply)
          IN  /\ lastReply' = [request |-> r, kind |-> "error", status |-> 0, body |-> <<>>,
                               outcome |-> did.outcome, logged |-> did.logged,
                               url |-> did.url, opened |-> "-"]
              /\ browser' = IF did.outcome = "browser" THEN did.url ELSE browser
              /\ inflight' = inflight \ {r}
    /\ UNCHANGED <<headVars, prefVars, pc, gcodeDict, promptSetting, includeSnapshot, cur, posts,
                   notesVars, rowVars, visVars>>

Next ==
    \/ OnWriteStarted
    \/ DialogAnswered
    \/ OnSendMenuButtonClicked
    \/ HandlerReturn
    \/ RequestFinished
    \/ RequestError

Spec == Init /\ [][Next]_vars

(***************************************************************************)
(* Claims about _buildSettingRow (checked under SpecRow).                  *)
(***************************************************************************)
RowBuilt == row # NoRow

\* the formatted values of the extruders that used filament
RowFormatted == {FormatValue(extruderValue[settingName][p], settingUnit[settingName]) :
                    p \in UsedPositions(materialLengths)}

RECURSIVE Ascending(_)
\* the numbers of a set, smallest first
Ascending(S) ==
    IF S = {} THEN <<>>
    ELSE LET m == CHOOSE x \in S : \A y \in S : x <= y
         IN  <<m>> \o Ascending(S \ {m})

\* '<value> (Ex N)' for the extruder at position p
RowEntry(p) ==
    FormatValue(extruderValue[settingName][p], settingUnit[settingName])
        \o <<" (", "Ex ">> \o StrOfInt(p + 1) \o <<")">>

\* C4: when at least one extruder used filament and all of them yield the same
\* formatted value, the row is exactly '<label>: <value>': the value once, no
\* '(Ex N)' tag.
C4_SameValueCompactRow ==
    (RowBuilt /\ Cardinality(RowFormatted) = 1)
        => \E v \in RowFormatted : row = <<Label(settingName), ": ">> \o v

\* two extruders used filament and agree on a value that carries a unit
C4_Witness ==
    /\ RowBuilt
    /\ Cardinality(UsedPositions(materialLengths)) = 2
    /\ Cardinality(RowFormatted) = 1
    /\ settingUnit[settingName] = "mm"

\* C5: when the extruders that used filament yield at least two distinct
\* formatted values, the row is '<label>: ' followed by one '<value> (Ex N)' per
\* extruder that used filament, N = position + 1, separated by ', ', in
\* ascending order of extruder position.
C5_PerExtruderRowAscending ==
    (RowBuilt /\ Cardinality(RowFormatted) >= 2)
        => LET order == Ascending(UsedPositions(materialLengths))
           IN  row = <<Label(settingName), ": ">> \o
                     JoinWith(<<", ">>, [i \in 1..Len(order) |-> RowEntry(order[i])])

(***************************************************************************)
(* Claims about the settings part of the notes (checked under SpecNotes).  *)
(***************************************************************************)
RECURSIVE Lines(_)
\* the lines of a text, each without its "\n"
Lines(text) ==
    IF text = <<>> THEN <<>>
    ELSE LET n == CHOOSE i \in 1..(Len(text) + 1) :
                    /\ i = Len(text) + 1 \/ text[i] = "\n"
                    /\ \A j \in 1..(i - 1) : text[j] # "\n"
         IN  <<SubSeq(text, 1, n - 1)>> \o
             (IF n >= Len(text) THEN <<>> ELSE Lines(SubSeq(text, n + 1, Len(text))))

\* the setting rows of the notes: the lines indented by two spaces
SettingLines(text) == SelectSeq(Lines(text), LAMBDA l : l # <<>> /\ l[1] = "  ")

\* the keys whose row the claim expects, in model row order
LoggedRows == SelectSeq(modelRows, LAMBDA k : k \notin Categories /\ k \in SplitSet(loggedPref))

\* C6: a setting row is in the notes if and only if its key is in the
\* ';'-separated logged_settings preference and is a non-category row of the
\* model; each such setting appears exactly once, and rows appear in model
\* row order; for every sequence of model rows.
C6_LoggedRowsOnceInModelOrder ==
    notes # NoNotes
        => SettingLines(notes) =
             [i \in 1..Len(LoggedRows) |->
                <<"  ">> \o BuildSettingRow(LoggedRows[i], materialLengths,
                                            extruderValue[LoggedRows[i]],
                                            settingUnit[LoggedRows[i]])]

\* the same, for the models whose first row is a category
C6_AfterFirstCategory ==
    (modelRows # <<>> /\ modelRows[1] \in Categories) => C6_LoggedRowsOnceInModelOrder

(***************************************************************************)
(* Claims about the handlers and the HTTP exchange (checked under Spec).   *)
(***************************************************************************)
\* how deep inside braces token i of a JSON text is
Depth(text, i) ==
    Cardinality({j \in 1..(i - 1) : text[j] = "{"})
        - Cardinality({j \in 1..(i - 1) : text[j] = "}"})

\* the keys of a JSON text at a depth (1: the object itself), in order
KeysAtDepth(text, d) ==
    LET at == {i \in 1..(Len(text) - 1) : text[i + 1] = ":" /\ Depth(text, i) = d}
        ix == Ascending(at)
    IN  [n \in 1..Len(ix) |-> text[ix[n]]]

\* a JSON text holds this key at this depth
HasKeyAtDepth(text, key, d) ==
    \E i \in 1..(Len(text) - 1) :
        text[i] = key /\ text[i + 1] = ":" /\ Depth(text, i) = d

\* the POSTs an invocation issued
PostsOf(inv) == {i \in 1..Len(posts) : posts[i].inv = inv}

\* the current (or last) invocation went through _sendTo3DPrintLog unharmed
SentCleanly == cur.sent /\ cur.raised = "none"

\* C1: whatever exception is raised while _onWriteStarted decides whether to
\* send, assembles or submits, the handler logs it and returns normally: no
\* exception leaves the handler.
C1_WriteStartedNeverRaises ==
    cur.kind = "write" =>
        /\ ~cur.propagated
        /\ cur.raised # "none" => cur.logged = "exception"
        /\ pc = "returning" => ENABLED HandlerReturn

\* an exception met while deciding, logged, and the handler has returned
C1_Witness ==
    /\ cur.kind = "write"
    /\ cur.raised = "decide"
    /\ cur.logged = "exception"
    /\ cur.returned

QueryParam(url, name) ==
    LET i == CHOOSE i \in 1..(Len(url) - 2) : url[i] = name /\ url[i + 1] = "="
    IN  UnquotePlus(url[i + 2])

BrowserOpened == lastReply.outcome = "browser"

\* C3: a browser is opened only in response to a reply with status 200, with
\* new_print_url plus a query string whose settingId is the newSettingId of
\* that reply's body; the POST that reply answers came first.
C3_BrowserOnlyAfterOk ==
    /\ browser # <<>> => posts # <<>>
    /\ BrowserOpened =>
          /\ lastReply.kind = "finished"
          /\ lastReply.status = 200
          /\ browser = lastReply.url
          /\ SubSeq(browser, 1, 2) = <<NewPrintUrl, "?">>
          /\ QueryParam(browser, "settingId") = lastReply.body[4]
          /\ PostsOf(lastReply.request) # {}

\* the browser was opened for an id that has to be quoted in the url
C3_Witness ==
    /\ BrowserOpened
    /\ lastReply.body[4] = "a b"
    /\ lastReply.opened = "ok"

\* C7: every reply given to a callback ends in one of two ways: a finished
\* reply with status 200 opens the browser; any other finished reply, and an
\* error, writes an error log entry and nothing else.
C7_BrowserOrErrorLog ==
    lastReply.kind # "none" =>
        IF lastReply.kind = "finished" /\ lastReply.status = 200
        THEN lastReply.outcome = "browser"
        ELSE lastReply.outcome = "logged" /\ lastReply.logged = "error"

\* C8: the POST is fire-and-forget: the handler returns whether or not a reply
\* ever comes, and the reply to a POST is handled only after the handler that
\* issued it has returned.
C8_FireAndForget ==
    /\ pc = "returning" => ENABLED HandlerReturn
    /\ (lastReply.kind # "none" /\ lastReply.request = cur.id) => cur.returned
    /\ lastReply.request <= cur.id

\* write-started sent, returned, and the request later ended in an error
C8_Witness ==
    /\ cur.kind = "write"
    /\ cur.returned
    /\ lastReply.kind = "error"
    /\ lastReply.request = cur.id

\* the capture gave no image: it failed, raised or yielded nothing
CaptureFailed(c) ==
    \/ c.backend = "raises"
    \/ c.backend = "none" /\ c.own \in {"raises", "none"}

\* C10: the POSTed settings hold a 'snapshot' entry if and only if
\* include_snapshot is true and _generateSnapshot returned a non-empty text;
\* when the capture fails, raises or yields nothing, _generateSnapshot returns
\* None and the POST is still issued, without the entry.
C10_SnapshotEntry ==
    SentCleanly =>
        /\ PostsOf(cur.id) # {}
        /\ \A i \in PostsOf(cur.id) :
              /\ HasKeyAtDepth(posts[i].body, "snapshot", 2)
                   <=> (includeSnapshot /\ cur.snapshot # None /\ cur.snapshot # EmptyText)
              /\ (includeSnapshot /\ CaptureFailed(cur.capture)) => cur.snapshot = None

\* Snapshot.snapshot raised, and the POST went out all the same
C10_Witness ==
    /\ SentCleanly
    /\ includeSnapshot
    /\ cur.capture.own = "raises"
    /\ PostsOf(cur.id) # {}

(***************************************************************************)
(* Claims about the visibility handler (checked under SpecVis).            *)
(***************************************************************************)
\* the set setSettingVisibility hands to setVisible
Requested == IF lastCall.on THEN lastCall.before \cup {lastCall.key}
                            ELSE lastCall.before \ {lastCall.key}

\* the call did to the visible set what was asked, and nothing else
CallTookEffect ==
    /\ lastCall.on => lastCall.key \in visible
    /\ ~lastCall.on => lastCall.key \notin visible
    /\ \A k \in (visible \cup lastCall.before) \ {lastCall.key} :
           k \in visible <=> k \in lastCall.before

\* C9 as stated: once the signals have settled the preference, split on ';',
\* equals the visible set; setSettingVisibility(key, true) makes key a member,
\* setSettingVisibility(key, false) makes it a non-member, and no other key's
\* membership changes.
C9_PreferenceMirrorsVisible ==
    /\ SplitSet(loggedPref) = visible
    /\ lastCall.op = "set" => CallTookEffect

\* C9 as amended: the same, except that a call which leaves no key to write
\* (the set is empty, or holds only the empty key) resets the preference to
\* its default, and the visible set becomes the default logged settings.
C9_PreferenceMirrorsVisibleOrResets ==
    /\ SplitSet(loggedPref) = visible
    /\ lastCall.op = "set" =>
          IF Requested \in {{}, {""}}
          THEN visible = DefaultLoggedSettings
          ELSE CallTookEffect

\* a setting was unticked, another stayed, and the preference followed
C9_Witness ==
    /\ lastCall.op = "set"
    /\ ~lastCall.on
    /\ lastCall.key \in lastCall.before
    /\ Requested # {}
    /\ SplitSet(loggedPref) = Requested

(***************************************************************************)
(* Claims about the decision to send (checked under Spec).                 *)
(***************************************************************************)
\* the handler got through its decision without an exception
Decided == cur.kind # "none" /\ cur.raised # "decide"

\* C11: no POST is ever issued while the scene has no sliced g-code
\* (gcode_dict missing or empty): write-started does nothing and shows no
\* confirmation dialog; the menu item shows the 'File Not Sliced' dialog and
\* returns without sending.
C11_NoPostWithoutSlicedModel ==
    gcodeDict \in {"missing", "empty"} =>
        /\ posts = <<>>
        /\ inflight = {}
        /\ pc # "dialog"
        /\ cur.dialog # "confirm"
        /\ ~cur.sent
        /\ (Decided /\ cur.kind = "write") => cur.dialog = "none"
        /\ (Decided /\ cur.kind = "menu") =>
              /\ cur.dialog = "not_sliced"
              /\ pc = "returning" => ENABLED HandlerReturn

\* the menu item was clicked twice on an empty gcode_dict, and has returned
C11_Witness ==
    /\ gcodeDict = "empty"
    /\ cur.id = 2
    /\ cur.kind = "menu"
    /\ cur.dialog = "not_sliced"
    /\ cur.returned

\* C12: on write-started with a sliced model the prompt_settings preference
\* decides: 'send_after_save' sends without a dialog; 'do_not_send' never
\* sends and shows no dialog; any other value shows the confirmation dialog
\* and sends if and only if the user chooses Ok.
C12_PromptSettingDecides ==
    (Decided /\ cur.kind = "write" /\ HasSlicedModel(gcodeDict)) =>
        /\ promptSetting = "send_after_save" => (cur.sent /\ cur.dialog = "none")
        /\ promptSetting = "do_not_send" => (~cur.sent /\ cur.dialog = "none")
        /\ promptSetting \notin {"send_after_save", "do_not_send"} =>
              /\ cur.dialog = "confirm"
              /\ pc = "dialog" => (~cur.sent /\ cur.answer = "none")
              /\ pc # "dialog" => (cur.sent <=> cur.answer = "ok")
        /\ ~cur.sent => PostsOf(cur.id) = {}
        /\ SentCleanly => PostsOf(cur.id) # {}

\* a preference value the plugin does not know: the dialog was shown, the
\* user chose Ok and the POST went out
C12_Witness ==
    /\ cur.kind = "write"
    /\ promptSetting = "ask_once"
    /\ cur.dialog = "confirm"
    /\ cur.answer = "ok"
    /\ PostsOf(cur.id) # {}

\* C14: the menu action does not consult prompt_settings: with a sliced model
\* it sends for every value of that preference, 'do_not_send' included, and
\* never shows the confirmation dialog.
C14_MenuIgnoresPromptSetting ==
    (Decided /\ cur.kind = "menu" /\ HasSlicedModel(gcodeDict)) =>
        /\ cur.sent
        /\ cur.dialog = "none"
        /\ cur.answer = "none"
        /\ SentCleanly => PostsOf(cur.id) # {}

\* the preference says 'do_not_send', and the menu item sent
C14_Witness ==
    /\ cur.kind = "menu"
    /\ promptSetting = "do_not_send"
    /\ SentCleanly
    /\ PostsOf(cur.id) # {}
    /\ cur.returned

\* the keys every assembled settings dict holds
AssembledKeys ==
    {"note", "print_name", "time_stamp", "cura_version", "cura_build_type",
     "plugin_version", "estimated_print_time_seconds", "material_used_mg",
     "definition_id", "name", "manufacturer", "models"}

\* C15: if a step of the payload assembly in _sendTo3DPrintLog raises (notes,
\* print name, metadata, print time, material usage, machine metadata, model
\* information), no POST is issued for that invocation, so no partial payload
\* is ever sent; the exception is logged and the method returns normally, on
\* the menu path and on the write-started path.
C15_NoPostAfterAssemblyFault ==
    /\ cur.raised \in AssemblyFaults =>
          /\ cur.sent
          /\ PostsOf(cur.id) = {}
          /\ cur.id \notin inflight
          /\ cur.logged = "exception"
          /\ ~cur.propagated
          /\ pc = "returning" => ENABLED HandlerReturn
    /\ (SentCleanly /\ pc = "returning") =>
          \A i \in PostsOf(cur.id) :
              \A k \in AssembledKeys : HasKeyAtDepth(posts[i].body, k, 2)

\* the menu item sent once; clicked again, the last step of the assembly
\* raised, and the handler has returned
C15_Witness ==
    /\ cur.kind = "menu"
    /\ cur.id = 2
    /\ cur.raised = "model_information"
    /\ cur.returned
    /\ Len(posts) = 1

(***************************************************************************)
(* Claims about the construction (checked under SpecPrefs).                *)
(***************************************************************************)
\* the configuration file held bypass_prompt, with a true value
HadTrueBypassPrompt ==
    /\ "bypass_prompt" \in DOMAIN curaCfg
    /\ curaCfg["bypass_prompt"] = "True"

\* the value prompt_settings had: the default when it was never set
PromptSettingBefore ==
    IF "prompt_settings" \in DOMAIN curaCfg THEN curaCfg["prompt_settings"] ELSE "always_ask"

\* C13: after PrintLogUploader is constructed the deprecated preference
\* bypass_prompt no longer exists; prompt_settings has been set to
\* 'send_after_save' if and only if bypass_prompt existed with a true value,
\* and otherwise keeps the value it had (the default 'always_ask' when never
\* set).
C13_BypassPromptMigrated ==
    pc # "unconstructed" =>
        /\ "bypass_prompt" \notin DOMAIN preferences
        /\ "prompt_settings" \in DOMAIN preferences
        /\ preferences["prompt_settings"] =
              IF HadTrueBypassPrompt THEN "send_after_save" ELSE PromptSettingBefore
        /\ \A k \in (DOMAIN curaCfg) \ {"bypass_prompt", "prompt_settings"} :
              k \in DOMAIN preferences /\ preferences[k] = curaCfg[k]

\* bypass_prompt was true next to a prompt_settings of 'do_not_send'
C13_Witness ==
    /\ pc # "unconstructed"
    /\ HadTrueBypassPrompt
    /\ PromptSettingBefore = "do_not_send"
    /\ preferences["prompt_settings"] = "send_after_save"

(***************************************************************************)
(* Claims about the category blocks of the notes (checked under SpecNotes) *)
(***************************************************************************)
IsSettingLine(l) == l # <<>> /\ l[1] = "  "

\* the heading lines of the notes: the lines after "Settings:" that are not
\* setting rows
HeadingLines(text) == SelectSeq(Tail(Lines(text)), LAMBDA l : ~IsSettingLine(l))

\* row i of the model is a setting whose key is logged
LoggedAt(i) == modelRows[i] \notin Categories /\ modelRows[i] \in SplitSet(loggedPref)

\* the index of the nearest category row before row i; 0 when there is none
CategoryBefore(i) ==
    LET before == {j \in 1..(i - 1) : modelRows[j] \in Categories}
    IN  IF before = {} THEN 0 ELSE CHOOSE j \in before : \A k \in before : k <= j

\* the category rows a logged setting row belongs to, in model order
CategoriesInUse ==
    SelectSeq([j \in 1..Len(modelRows) |-> j],
              LAMBDA j : /\ modelRows[j] \in Categories
                         /\ \E i \in 1..Len(modelRows) : LoggedAt(i) /\ CategoryBefore(i) = j)

\* the line of the notes that heads line n: the nearest line before it that
\* is not a setting row
HeadingOf(lines, n) ==
    lines[CHOOSE m \in 1..(n - 1) :
            /\ ~IsSettingLine(lines[m])
            /\ \A k \in (m + 1)..(n - 1) : IsSettingLine(lines[k])]

\* C16: in the notes _generateNotes produces, for every sequence of model
\* rows, a category heading line is emitted if and only if at least one
\* logged setting row belongs to that category, and every emitted setting
\* row is listed under the heading of the nearest category row that precedes
\* it in the model.
C16_HeadingsOfCategoriesInUse ==
    notes # NoNotes =>
        LET lines == Lines(notes)
        IN  /\ HeadingLines(notes) =
                  [n \in 1..Len(CategoriesInUse) |-> <<Label(modelRows[CategoriesInUse[n]])>>]
            /\ \A n \in 1..Len(lines) :
                  IsSettingLine(lines[n]) =>
                      \E i \in 1..Len(modelRows) :
                          /\ LoggedAt(i)
                          /\ Label(modelRows[i]) = lines[n][2]
                          /\ CategoryBefore(i) # 0
                          /\ HeadingOf(lines, n) = <<Label(modelRows[CategoryBefore(i)])>>

\* the same, for the models whose first row is a category
C16_AfterFirstCategory ==
    (modelRows # <<>> /\ modelRows[1] \in Categories) => C16_HeadingsOfCategoriesInUse

(***************************************************************************)
(* Claims about the formatted values (checked under SpecRow).              *)
(***************************************************************************)
\* the formatted value as the claim words it
ClaimedFormat(value, unit) ==
    CASE unit \in {None, "", " ", "\t"} -> <<value>>
      [] unit \in {"°C", "°F", "%"}     -> <<value, unit>>
      [] OTHER                          -> <<value, " ", unit>>

\* the text occurs in the row as one entry: after ': ' or ', ', and up to the
\* end of the row or the next ', '
IsEntryOfRow(text) ==
    \E i \in 3..(Len(row) - Len(text) + 1) :
        /\ SubSeq(row, i, i + Len(text) - 1) = text
        /\ row[i - 1] \in {": ", ", "}
        /\ i + Len(text) - 1 = Len(row) \/ row[i + Len(text)] = ", "

\* C18: the formatted value of a setting for an extruder is str(value) when
\* the unit is absent, empty or only whitespace; str(value) immediately
\* followed by the unit when the unit is '°C', '°F' or '%'; and str(value),
\* one space, then the unit for every other unit.
C18_FormattedValue ==
    (RowBuilt /\ UsedPositions(materialLengths) # {}) =>
        LET unit     == settingUnit[settingName]
            claim(p) == ClaimedFormat(extruderValue[settingName][p], unit)
        IN  \/ \A p \in UsedPositions(materialLengths) :
                  row = <<Label(settingName), ": ">> \o claim(p)
            \/ \A p \in UsedPositions(materialLengths) :
                  IsEntryOfRow(claim(p) \o <<" (", "Ex ">> \o StrOfInt(p + 1) \o <<")">>)

\* two extruders with different values of a setting in degrees Fahrenheit
C18_Witness ==
    /\ RowBuilt
    /\ settingUnit[settingName] = "°F"
    /\ \E p, q \in UsedPositions(materialLengths) :
          extruderValue[settingName][p] # extruderValue[settingName][q]

(***************************************************************************)
(* Claims about the whole notes (checked under SpecNotesHead).             *)
(***************************************************************************)
NotesBuilt == notes # NoNotes

\* the print information has an entry at position p, and it is greater than 0
PositiveLength(p) ==
    /\ p < Len(materialLengths)
    /\ materialLengths[p + 1] # NoLength
    /\ materialLengths[p + 1][1] > 0

\* the places where a text occurs in another
Occurrences(sub, text) ==
    {i \in 1..(Len(text) - Len(sub) + 1) : SubSeq(text, i, i + Len(sub) - 1) = sub}

\* the material of the extruder at position p is named on the 'Filament:' line
MaterialListed(p) ==
    \E i \in Occurrences(MaterialOf(p), notesHead) :
        notesHead[i + Len(MaterialOf(p))] \in {", ", "\n"}

\* the values the setting rows of the notes show
ValuesShown(key) ==
    LET lines == SelectSeq(Lines(notes),
                           LAMBDA l : IsSettingLine(l) /\ l[2] = Label(key))
    IN  UNION {{lines[n][i] : i \in 4..Len(lines[n])} : n \in 1..Len(lines)}
            \cap ({"0.2"} \cup {NozzleWidths[w] : w \in 1..Len(NozzleWidths)})

\* C17: an extruder contributes a value to a setting row, and its material
\* to the 'Filament:' line, only if the print information has a
\* materialLengths entry at the extruder's position and that entry is
\* greater than 0; extruders whose used length is missing, None or not
\* positive never appear in either.
C17_OnlyExtrudersThatUsedFilament ==
    NotesBuilt =>
        /\ \A p \in Positions :
              ~PositiveLength(p) =>
                  /\ ~MaterialListed(p)
                  /\ Occurrences(<<"Ex ">> \o StrOfInt(p + 1) \o <<")">>, notes) = {}
        /\ \A key \in {"layer_height", "line_width"} :
              \A v \in ValuesShown(key) :
                  \E p \in Positions : PositiveLength(p) /\ extruderValue[key][p] = v

\* the first extruder has a negative length, the second used filament, the
\* third used none: one material is named and one line width shown
C17_Witness ==
    /\ NotesBuilt
    /\ includeFilamentName
    /\ materialLengths = <<<<-1>>, <<1>>, <<0>>>>
    /\ MaterialListed(1)
    /\ ValuesShown("line_width") = {NozzleWidths[2]}

\* where a block header stands in the whole text; 0 when it is not there
HeaderAt(header) ==
    LET at == Occurrences(<<header>>, notesHead \o notes)
    IN  IF at = {} THEN 0 ELSE CHOOSE i \in at : \A j \in at : i <= j

\* C19: the notes are built in a fixed order: a 'Profile: <name>' block
\* exactly when include_profile_name is true; then a 'Filament: ...' block
\* exactly when include_filament_name is true and at least one extruder used
\* filament; then an 'Objects:' block exactly when include_object_details is
\* true and at least one model is listed; then the 'Settings:' header, always,
\* followed by the category blocks.
C19_NotesInFixedOrder ==
    NotesBuilt =>
        LET text     == notesHead \o notes
            profile  == HeaderAt("Profile: ")
            filament == HeaderAt("Filament: ")
            objects  == HeaderAt("Objects:")
            settings == HeaderAt("Settings:")
        IN  /\ \A h \in {"Profile: ", "Filament: ", "Objects:", "Settings:"} :
                  Cardinality(Occurrences(<<h>>, text)) <= 1
            /\ (profile # 0) <=> includeProfileName
            /\ profile # 0 => profile = 1 /\ text[2] = ActiveQualityName
            /\ (filament # 0) <=> (includeFilamentName /\ \E p \in Positions : PositiveLength(p))
            /\ filament # 0 => filament > profile
            /\ (objects # 0) <=> (includeObjectDetails /\ Len(sceneModels) > 0)
            /\ objects # 0 =>
                  /\ objects > profile /\ objects > filament
                  /\ \A n \in 1..Len(sceneModels) :
                        \E i \in Occurrences(<<sceneModels[n].name>>, text) :
                            objects < i /\ i < settings
            /\ settings = Len(notesHead) + 1
            /\ settings > profile /\ settings > filament /\ settings > objects
            /\ \A i \in 1..(settings - 1) : text[i] \notin {Label(c) : c \in Categories}
            /\ HeadingLines(notes) = <<<<Label("resolution")>>>>
            /\ Len(SettingLines(notes)) = 2

\* no profile name, a filament block, and an objects block of two models
C19_Witness ==
    /\ NotesBuilt
    /\ ~includeProfileName
    /\ HeaderAt("Filament: ") = 1
    /\ HeaderAt("Objects:") > 1
    /\ Len(sceneModels) = 2
    /\ HeaderAt("Settings:") > HeaderAt("Objects:")

====
